---- MODULE Spec2Model ----
(***************************************************************************)
(* Session controller of the Nebula Sketch studio (src/App.tsx) and the    *)
(* two AI collaborator calls it sequences (src/services/gemini.ts).        *)
(*                                                                         *)
(* src/App.tsx holds three revisions of the App component; `version`       *)
(* selects the revision that is running (1: lines 24-261, 2: lines         *)
(* 298-509, 3: lines 548-814).  Every call of handleAIAnalyze is an async  *)
(* invocation with its own locals (mode, analysis, vision) and its own     *)
(* position (pc); the component state (appState, aiData, generatedImg,     *)
(* isKeySetup) is shared by all invocations.                               *)
(*                                                                         *)
(* The drawing surface (src/components/Canvas.tsx) is a raster of sample   *)
(* points; the pointer events bound to the <canvas> element are actions,   *)
(* and a point of the raster holds the ink of the last segment stroked     *)
(* over it.                                                                *)
(***************************************************************************)
EXTENDS Integers, Sequences, FiniteSets, TLC

\* ------------------------------------------------------------------ bounds
\* number of handleAIAnalyze invocations in one run
MaxRequests == 2
\* number of header-button authorization dialogs open at the same time
MaxUserDialogs == 1
\* number of handleAIAnalyze invocations in one run of the studio
MaxStudioRequests == 1
\* number of snapshots of resize() whose load is pending at the same time
MaxPendingLoads == 2

VARIABLES
    version,        \* which revision of App is running
    hasAistudio,    \* window.aistudio is present
    hasApiKey,      \* process.env.API_KEY is set
    hasSurface,     \* canvasRef.current of App is set
    hasContext,     \* contextRef.current of Canvas is set
    appState,       \* useState<AppState>('drawing')
    aiData,         \* useState<AIResponse | null>(null)
    generatedImg,   \* useState<string | null>(null)
    isKeySetup,     \* useState(false)
    checkKey,       \* position of the startup checkKey() effect
    userDialogs,    \* header-button dialogs awaiting openSelectKey()
    reqs,           \* the handleAIAnalyze invocations, in starting order
    tool,           \* useState<'brush' | 'eraser' | 'neon'>('brush')
    brushColor,     \* useState('#ffffff')
    brushWidth,     \* useState(5)
    isDrawing,      \* Canvas: useState(false)
    touching,       \* a touch that started on the <canvas> is active
    strokeStyle,    \* ctx.strokeStyle
    lineWidth,      \* ctx.lineWidth
    shadowBlur,     \* ctx.shadowBlur
    pen,            \* last point of the path of the stroke in progress
    raster,         \* the pixels of the <canvas>, by sample point
    pending,        \* snapshots of resize() whose img.onload has not run
    cleared,        \* clear() has run and no segment was stroked since
    download        \* href of the last downloaded link

vars == <<version, hasAistudio, hasApiKey, hasSurface, hasContext,
          appState, aiData, generatedImg, isKeySetup, checkKey, userDialogs,
          reqs, tool, brushColor, brushWidth, isDrawing, touching,
          strokeStyle, lineWidth, shadowBlur, pen, raster, pending, cleared,
          download>>

\* the brush settings of App and the state of the Canvas component
brush == <<tool, brushColor, brushWidth>>
\* the 2d context and its path
ctx == <<strokeStyle, lineWidth, shadowBlur, pen>>
stroke == <<isDrawing, ctx, raster, cleared>>
offscreen == <<pending, download>>
surface == <<touching, stroke, offscreen>>
controller == <<appState, aiData, generatedImg, isKeySetup, checkKey,
                userDialogs, reqs>>

env == <<version, hasAistudio, hasApiKey, hasSurface, hasContext>>

\* ------------------------------------------------------------ value space
Versions == {1, 2, 3}
Modes == {"basic", "pro"}
AppStates == {"drawing", "analyzing", "viewing-result"}
ReqIds == 1..MaxRequests

\* JavaScript null and undefined
Null == [kind |-> "null"]
Undefined == "undefined"

\* property read obj.key of a decoded JSON object: undefined when absent
Get(obj, key) == IF key \in DOMAIN obj THEN obj[key] ELSE Undefined

\* The objects JSON.parse can return for the analysis call number c.
\* `call` stands for the identity of the freshly parsed object.
FullResponse(c, b) ==
    [kind |-> "object", call |-> c, critique |-> "C", suggestion |-> "S",
     palette |-> <<"#111111", "#222222", "#333333", "#444444">>,
     backstory |-> b]
\* response.text empty: JSON.parse('{}')
EmptyResponse(c) == [kind |-> "object", call |-> c]
Backstories == {"B1"}
AnalysisResults(c) ==
    {FullResponse(c, b) : b \in Backstories} \cup {EmptyResponse(c)}

\* The strings generateProVision can return for call number c: a data URL
\* built from the first inlineData part, or '' when there is none.
ImageUrl(c) == [kind |-> "string", call |-> c, data |-> TRUE]
EmptyUrl == [kind |-> "string", call |-> 0, data |-> FALSE]
VisionResults(c) == {ImageUrl(c), EmptyUrl}

\* Messages of the errors the collaborator calls reject with.
MsgEntityNotFound == "Requested entity was not found"
MsgKeyNotFound == "API Key not found in environment."
MsgHttp404 == "404 NOT_FOUND"
MsgNetwork == "Failed to fetch"
ServiceErrors == {MsgEntityNotFound, MsgHttp404, MsgNetwork}

\* user-visible notifications
AlertInvalidKey == "invalid-key"
AlertGeneric == "generic-failure"
AlertNoStudio == "no-aistudio"

\* --------------------------------------------------------- drawing surface
\* tools, sample points and inks of the drawing surface
Tools == {"brush", "neon", "eraser"}
Points == {"p1", "p2"}
NoPoint == "none"
White == "#ffffff"
\* the page background, painted by the eraser
Background == "#050505"
\* strokeStyle of a fresh 2d context
Black == "#000000"
Transparent == "transparent"
BlankRaster == [p \in Points |-> Transparent]
\* useState(5) of brushWidth and the widths the slider is moved to
DefaultWidth == 5
WideWidth == 50
Widths == {DefaultWidth, WideWidth}
\* lineWidth and shadowBlur of a fresh 2d context, shadowBlur of neon
FreshWidth == 1
NoBlur == 0
NeonBlur == 15

\* --------------------------------------------------- one invocation record
\* pc: where the invocation is suspended; mode, analysis, vision: its locals;
\* analyzeCalled, visionCalled, visionPrompt: the collaborator calls it made;
\* canvasData: the result of getCanvasData(); visionData: the image passed
\* to generateProVision;
\* failedAt: the call whose rejection entered the catch block; error: the
\* message of the caught error; phaseSet: its last setAppState; alerts: the
\* alert() calls it made
IdleReq ==
    [pc |-> "idle", mode |-> "none", analyzeCalled |-> FALSE,
     analysis |-> Null,
     visionCalled |-> FALSE, visionPrompt |-> Undefined, vision |-> Null,
     failedAt |-> "none", error |-> "none", phaseSet |-> "none",
     alerts |-> <<>>, canvasData |-> Null, visionData |-> Null]

Started(i) == i \in ReqIds /\ reqs[i].pc # "idle"
\* invocations that are suspended at an await
Pending(i) == reqs[i].pc \in {"dialog", "analyze", "vision", "catchDialog"}

\* the state of the mounted component: the useState initial values, and the
\* resize() call of the mount effect, which loads a snapshot of the empty
\* canvas when it got a context
Mounted ==
    /\ appState = "drawing"
    /\ aiData = Null
    /\ generatedImg = Null
    /\ isKeySetup = FALSE
    /\ checkKey = IF hasAistudio THEN "pending" ELSE "done"
    /\ userDialogs = 0
    /\ reqs = [i \in ReqIds |-> IdleReq]
    /\ tool = "brush"
    /\ brushColor = White
    /\ brushWidth = DefaultWidth
    /\ isDrawing = FALSE
    /\ touching = FALSE
    /\ strokeStyle = Black
    /\ lineWidth = FreshWidth
    /\ shadowBlur = NoBlur
    /\ pen = NoPoint
    /\ raster = BlankRaster
    /\ pending = IF hasContext THEN {BlankRaster} ELSE {}
    /\ cleared = FALSE
    /\ download = Null

\* the component mounted with its drawing surface
Init ==
    /\ version \in Versions
    /\ hasAistudio \in BOOLEAN
    /\ hasApiKey \in BOOLEAN
    /\ hasSurface = TRUE
    /\ hasContext = TRUE
    /\ Mounted


\* ------------------------------------------- decisions taken by the code
\* substring tests err.message?.includes(needle) on the modelled messages
Includes(msg, needle) ==
    <<msg, needle>> \in
        {<<MsgEntityNotFound, "Requested entity was not found">>,
         <<MsgEntityNotFound, "not found">>,
         <<MsgKeyNotFound, "not found">>,
         <<MsgHttp404, "404">>}

\* the test of the catch block that recognises an authorization failure
IsAuthError(v, msg) ==
    IF v = 3
    THEN Includes(msg, "404") \/ Includes(msg, "not found")
    ELSE Includes(msg, "Requested entity was not found")

\* mode === 'pro' && !isKeySetup
NeedsKeyDialog(mode, key) == mode = "pro" /\ ~key

\* what handleOpenKeyDialog does in revision v
KeyDialogStep(v, present) ==
    IF present THEN "await"
    ELSE CASE v = 1 -> "skip"      \* if (window.aistudio) is false
           [] v = 2 -> "throw"     \* window.aistudio.openSelectKey: TypeError
           [] v = 3 -> "alert"     \* alert("AI Studio environment not detected.")

\* what handleAIAnalyze does once `await handleOpenKeyDialog()` returns
AfterDialog(v) == IF v = 2 THEN "return" ELSE "proceed"

\* the catch block awaits window.aistudio.openSelectKey() again
ReopensDialog(v, present) == v = 1 /\ present

NeedsVisionAlways(mode) == TRUE
\* if (mode === 'pro') after the analysis result was stored
NeedsVision(mode) == mode = "pro"

VisionPromptStale(analysis, stored) == Get(stored, "backstory")
\* first argument of generateProVision(analysis.backstory, canvasData)
VisionPrompt(analysis, stored) == Get(analysis, "backstory")

VisionImageFresh(snapshot, current) == current
\* second argument of generateProVision(analysis.backstory, canvasData)
VisionImage(snapshot, current) == snapshot

BasicImageKept(old) == old
\* setGeneratedImg(null) of the basic branch
BasicImage(old) == Null

\* The toolbar (z-40) lies under the full-window loading overlay (z-50,
\* inset-0) that is rendered while appState is 'analyzing'; the result panel
\* covers only the right 460px, so the toolbar stays in reach beside it.
ToolbarReachable(phase) == phase # "analyzing"

\* The header button sits at the right end of the header (z-30), under the
\* loading overlay and under the result panel.
HeaderReachable(phase) == phase = "drawing"

\* the result panel is rendered when appState === 'viewing-result' && aiData;
\* its render reads aiData.palette.map
PanelRenders(phase, data) ==
    /\ phase = "viewing-result"
    /\ data # Null
    /\ "palette" \in DOMAIN data
\* the pointer reaches the <canvas>: not under the loading overlay; the
\* result panel covers its right part only
CanvasExposed(phase) == phase # "analyzing"
RefIgnored(ref) == TRUE
\* the test canvasRef.current of handleAIAnalyze, handleDownload, handleClear
RefAttached(ref) == ref
\* shadowBlur set by startDrawing
Glow(t) == IF t = "neon" THEN NeonBlur ELSE NoBlur
ColorPropPlain(t, c) == c
\* the color prop of <Canvas>
ColorProp(t, c) == IF t = "eraser" THEN Background ELSE c
\* the pixels after a segment through pts is stroked with ink
Paint(r, pts, ink) == [p \in Points |-> IF p \in pts THEN ink ELSE r[p]]

\* the errors analyzeSketch / generateProVision can reject with:
\* getAIClient throws when the key is missing, otherwise the service fails
CallErrors(key) == IF key THEN ServiceErrors ELSE {MsgKeyNotFound}

\* ---------------------------------------------------------------- actions
SetReq(i, r) == reqs' = [reqs EXCEPT ![i] = r]

\* setAppState('analyzing'); getCanvasData(); analyzeSketch(...) is issued
Proceed(i, r) ==
    /\ appState' = "analyzing"
    /\ SetReq(i, [r EXCEPT !.pc = "analyze", !.analyzeCalled = TRUE,
                           !.phaseSet = "analyzing", !.canvasData = raster])

\* the alert() of the catch block: one of the two branches
ErrorAlerts(auth) == IF auth THEN <<AlertInvalidKey>> ELSE <<AlertGeneric>>

CatchRetry(i, msg, stage) ==
    LET auth == IsAuthError(version, msg)
        r == [reqs[i] EXCEPT !.failedAt = stage, !.error = msg,
                             !.alerts = @ \o ErrorAlerts(auth)]
    IN /\ isKeySetup' = IF auth THEN FALSE ELSE isKeySetup
       /\ IF reqs[i].alerts = <<>>
          THEN /\ SetReq(i, [r EXCEPT !.pc = "analyze"])
               /\ UNCHANGED appState
          ELSE /\ SetReq(i, [r EXCEPT !.pc = "done", !.phaseSet = "drawing"])
               /\ appState' = "drawing"

\* the catch block of handleAIAnalyze
Catch(i, msg, stage) ==
    LET auth == IsAuthError(version, msg)
        r == [reqs[i] EXCEPT !.failedAt = stage, !.error = msg,
                             !.alerts = @ \o ErrorAlerts(auth)]
    IN /\ isKeySetup' = IF auth THEN FALSE ELSE isKeySetup
       /\ IF auth /\ ReopensDialog(version, hasAistudio)
          THEN /\ SetReq(i, [r EXCEPT !.pc = "catchDialog"])
               /\ UNCHANGED appState
          ELSE /\ SetReq(i, [r EXCEPT !.pc = "done", !.phaseSet = "drawing"])
               /\ appState' = "drawing"

\* a click on "Analizar" (basic) or "Remix IA" (pro)
HandleAIAnalyze(i, mode) ==
    /\ RefAttached(hasSurface)
    /\ reqs[i].pc = "idle"
    /\ (i > 1) => Started(i - 1)
    /\ ToolbarReachable(appState)
    /\ LET r == [reqs[i] EXCEPT !.mode = mode]
           step == KeyDialogStep(version, hasAistudio)
       IN IF NeedsKeyDialog(mode, isKeySetup)
          THEN CASE step = "await" ->
                      /\ SetReq(i, [r EXCEPT !.pc = "dialog"])
                      /\ UNCHANGED appState
                 [] step = "throw" ->
                      /\ SetReq(i, [r EXCEPT !.pc = "rejected"])
                      /\ UNCHANGED appState
                 [] step = "skip" -> Proceed(i, r)
                 [] step = "alert" ->
                      Proceed(i, [r EXCEPT !.alerts = <<AlertNoStudio>>])
          ELSE Proceed(i, r)
    /\ UNCHANGED <<env, brush, surface>>
    /\ UNCHANGED <<aiData, generatedImg, isKeySetup, checkKey,
                   userDialogs>>

\* openSelectKey() of a pro request resolves: setIsKeySetup(true)
DialogResolve(i) ==
    /\ reqs[i].pc = "dialog"
    /\ isKeySetup' = TRUE
    /\ IF AfterDialog(version) = "return"
       THEN /\ SetReq(i, [reqs[i] EXCEPT !.pc = "done"])
            /\ UNCHANGED appState
       ELSE Proceed(i, reqs[i])
    /\ UNCHANGED <<env, brush, surface>>
    /\ UNCHANGED <<aiData, generatedImg, checkKey, userDialogs>>

\* openSelectKey() of a pro request rejects: handleAIAnalyze rejects
DialogReject(i) ==
    /\ reqs[i].pc = "dialog"
    /\ SetReq(i, [reqs[i] EXCEPT !.pc = "rejected"])
    /\ UNCHANGED <<env, brush, surface>>
    /\ UNCHANGED <<appState, aiData, generatedImg, isKeySetup, checkKey,
                   userDialogs>>

\* analyzeSketch resolves with the decoded object resp
AnalyzeResolve(i, resp) ==
    /\ reqs[i].pc = "analyze"
    /\ hasApiKey
    /\ aiData' = resp
    /\ LET r == [reqs[i] EXCEPT !.analysis = resp]
       IN IF NeedsVision(r.mode)
          THEN /\ SetReq(i, [r EXCEPT !.pc = "vision", !.visionCalled = TRUE,
                                !.visionPrompt = VisionPrompt(resp, aiData),
                                !.visionData = VisionImage(r.canvasData, raster)])
               /\ UNCHANGED <<appState, generatedImg>>
          ELSE /\ generatedImg' = BasicImage(generatedImg)
               /\ appState' = "viewing-result"
               /\ SetReq(i, [r EXCEPT !.pc = "done",
                                      !.phaseSet = "viewing-result"])
    /\ UNCHANGED <<env, brush, surface>>
    /\ UNCHANGED <<isKeySetup, checkKey, userDialogs>>

\* analyzeSketch rejects
AnalyzeReject(i, msg) ==
    /\ reqs[i].pc = "analyze"
    /\ msg \in CallErrors(hasApiKey)
    /\ Catch(i, msg, "analyze")
    /\ UNCHANGED <<env, brush, surface>>
    /\ UNCHANGED <<aiData, generatedImg, checkKey, userDialogs>>

\* generateProVision resolves with the string img
VisionResolve(i, img) ==
    /\ reqs[i].pc = "vision"
    /\ generatedImg' = img
    /\ appState' = "viewing-result"
    /\ SetReq(i, [reqs[i] EXCEPT !.pc = "done", !.vision = img,
                                 !.phaseSet = "viewing-result"])
    /\ UNCHANGED <<env, brush, surface>>
    /\ UNCHANGED <<aiData, isKeySetup, checkKey, userDialogs>>

\* generateProVision rejects
VisionReject(i, msg) ==
    /\ reqs[i].pc = "vision"
    /\ msg \in CallErrors(hasApiKey)
    /\ Catch(i, msg, "vision")
    /\ UNCHANGED <<env, brush, surface>>
    /\ UNCHANGED <<aiData, generatedImg, checkKey, userDialogs>>

\* the dialog re-opened by the catch block closes: setAppState('drawing')
CatchDialogResolve(i) ==
    /\ reqs[i].pc = "catchDialog"
    /\ appState' = "drawing"
    /\ SetReq(i, [reqs[i] EXCEPT !.pc = "done", !.phaseSet = "drawing"])
    /\ UNCHANGED <<env, brush, surface>>
    /\ UNCHANGED <<aiData, generatedImg, isKeySetup, checkKey,
                   userDialogs>>

\* the dialog re-opened by the catch block rejects: the error leaves the
\* catch block, handleAIAnalyze rejects
CatchDialogReject(i) ==
    /\ reqs[i].pc = "catchDialog"
    /\ SetReq(i, [reqs[i] EXCEPT !.pc = "rejected"])
    /\ UNCHANGED <<env, brush, surface>>
    /\ UNCHANGED <<appState, aiData, generatedImg, isKeySetup, checkKey,
                   userDialogs>>

DismissClears ==
    /\ PanelRenders(appState, aiData)
    /\ appState' = "drawing"
    /\ raster' = BlankRaster
    /\ UNCHANGED <<env, brush, isDrawing, touching, ctx, cleared, offscreen>>
    /\ UNCHANGED <<aiData, generatedImg, isKeySetup, checkKey, userDialogs,
                   reqs>>

\* the close button and "VOLVER A DIBUJAR" of the result panel
Dismiss ==
    /\ PanelRenders(appState, aiData)
    /\ appState' = "drawing"
    /\ UNCHANGED <<env, brush, surface>>
    /\ UNCHANGED <<aiData, generatedImg, isKeySetup, checkKey, userDialogs,
                   reqs>>

\* the header button "ACTIVAR MODO PRO", rendered while !isKeySetup
OpenKeyDialogClick ==
    /\ ~isKeySetup
    /\ HeaderReachable(appState)
    /\ hasAistudio
    /\ userDialogs < MaxUserDialogs
    /\ userDialogs' = userDialogs + 1
    /\ UNCHANGED <<env, brush, surface>>
    /\ UNCHANGED <<appState, aiData, generatedImg, isKeySetup, checkKey,
                   reqs>>

UserDialogResolve ==
    /\ userDialogs > 0
    /\ userDialogs' = userDialogs - 1
    /\ isKeySetup' = TRUE
    /\ UNCHANGED <<env, brush, surface>>
    /\ UNCHANGED <<appState, aiData, generatedImg, checkKey, reqs>>

UserDialogReject ==
    /\ userDialogs > 0
    /\ userDialogs' = userDialogs - 1
    /\ UNCHANGED <<env, brush, surface>>
    /\ UNCHANGED <<appState, aiData, generatedImg, isKeySetup, checkKey,
                   reqs>>

\* the startup query hasSelectedApiKey() resolves: setIsKeySetup(hasKey)
CheckKeyResolve(hasKey) ==
    /\ checkKey = "pending"
    /\ checkKey' = "done"
    /\ isKeySetup' = hasKey
    /\ UNCHANGED <<env, brush, surface>>
    /\ UNCHANGED <<appState, aiData, generatedImg, userDialogs, reqs>>

CheckKeyReject ==
    /\ checkKey = "pending"
    /\ checkKey' = "done"
    /\ UNCHANGED <<env, brush, surface>>
    /\ UNCHANGED <<appState, aiData, generatedImg, isKeySetup,
                   userDialogs, reqs>>

\* a collaborator call or a dialog of invocation i settles
Settle(i) ==
    \/ DialogResolve(i)
    \/ DialogReject(i)
    \/ \E resp \in AnalysisResults(i) : AnalyzeResolve(i, resp)
    \/ \E msg \in CallErrors(hasApiKey) : AnalyzeReject(i, msg)
    \/ \E img \in VisionResults(i) : VisionResolve(i, img)
    \/ \E msg \in CallErrors(hasApiKey) : VisionReject(i, msg)
    \/ CatchDialogResolve(i)
    \/ CatchDialogReject(i)

\* the steps that follow the start of the component and of an invocation
Continue ==
    \/ \E i \in ReqIds : Settle(i)
    \/ Dismiss
    \/ \E hasKey \in BOOLEAN : CheckKeyResolve(hasKey)
    \/ CheckKeyReject

Next ==
    \/ \E i \in ReqIds, mode \in Modes : HandleAIAnalyze(i, mode)
    \/ Continue
    \/ OpenKeyDialogClick
    \/ UserDialogResolve
    \/ UserDialogReject

Spec == Init /\ [][Next]_vars

\* ------------------------------------------- actions of the drawing surface
\* startDrawing at point p: nothing without a context
StartDrawing(p) ==
    IF hasContext
    THEN /\ pen' = p
         /\ shadowBlur' = Glow(tool)
         /\ strokeStyle' = ColorProp(tool, brushColor)
         /\ lineWidth' = brushWidth
         /\ isDrawing' = TRUE
         /\ UNCHANGED <<raster, cleared>>
    ELSE UNCHANGED stroke

DrawUnguarded(p) ==
    /\ raster' = Paint(raster, {pen, p}, strokeStyle)
    /\ pen' = p
    /\ cleared' = FALSE
    /\ UNCHANGED <<isDrawing, strokeStyle, lineWidth, shadowBlur>>

\* draw at point p: lineTo(p) and stroke() while isDrawing; on an empty path
\* lineTo only moves to p
Draw(p) ==
    IF isDrawing /\ hasContext
    THEN /\ IF pen = NoPoint
            THEN UNCHANGED <<raster, cleared>>
            ELSE /\ raster' = Paint(raster, {pen, p}, strokeStyle)
                 /\ cleared' = FALSE
         /\ pen' = p
         /\ UNCHANGED <<isDrawing, strokeStyle, lineWidth, shadowBlur>>
    ELSE UNCHANGED stroke

\* stopDrawing: closePath() ends the path of the stroke and leaves the
\* pixels alone
StopDrawing ==
    /\ isDrawing' = FALSE
    /\ pen' = NoPoint
    /\ UNCHANGED <<strokeStyle, lineWidth, shadowBlur, raster, cleared>>

MouseDown(p) ==
    /\ CanvasExposed(appState)
    /\ StartDrawing(p)
    /\ UNCHANGED <<env, controller, brush, touching, offscreen>>

MouseMove(p) ==
    /\ CanvasExposed(appState)
    /\ Draw(p)
    /\ UNCHANGED <<env, controller, brush, touching, offscreen>>

MouseUp ==
    /\ CanvasExposed(appState)
    /\ StopDrawing
    /\ UNCHANGED <<env, controller, brush, touching, offscreen>>

\* the pointer leaves the <canvas>, or another element comes to lie under it
MouseOut ==
    /\ StopDrawing
    /\ UNCHANGED <<env, controller, brush, touching, offscreen>>

TouchStart(p) ==
    /\ CanvasExposed(appState)
    /\ ~touching
    /\ touching' = TRUE
    /\ StartDrawing(p)
    /\ UNCHANGED <<env, controller, brush, offscreen>>

\* the events of a touch go to the element it started on
TouchMove(p) ==
    /\ touching
    /\ Draw(p)
    /\ UNCHANGED <<env, controller, brush, touching, offscreen>>

TouchEnd ==
    /\ touching
    /\ touching' = FALSE
    /\ StopDrawing
    /\ UNCHANGED <<env, controller, brush, offscreen>>

\* the three tool buttons of the toolbar
SetTool(t) ==
    /\ ToolbarReachable(appState)
    /\ tool' = t
    /\ UNCHANGED <<env, controller, brushColor, brushWidth, surface>>

\* the color input of the toolbar
PickerColors == {White, "#111111"}
PickColor(c) ==
    /\ ToolbarReachable(appState)
    /\ brushColor' = c
    /\ UNCHANGED <<env, controller, tool, brushWidth, surface>>

\* the width slider of the toolbar
SetWidth(w) ==
    /\ ToolbarReachable(appState)
    /\ brushWidth' = w
    /\ UNCHANGED <<env, controller, tool, brushColor, surface>>

\* number of colors the analysis prompt asks for
PaletteSize == 4
\* the k-th palette button of the result panel
PaletteSelect(k) ==
    /\ PanelRenders(appState, aiData)
    /\ k \in DOMAIN aiData.palette
    /\ brushColor' = aiData.palette[k]
    /\ UNCHANGED <<env, controller, tool, brushWidth, surface>>

\* handleClear, confirmed: clear() erases the pixels when there is a context
HandleClear ==
    /\ ToolbarReachable(appState)
    /\ IF RefAttached(hasSurface) /\ hasContext
       THEN raster' = BlankRaster /\ cleared' = TRUE
       ELSE UNCHANGED <<raster, cleared>>
    /\ UNCHANGED <<env, controller, brush, touching, isDrawing, ctx,
                   offscreen>>

HandleDownloadEndsStroke ==
    /\ ToolbarReachable(appState)
    /\ IF RefAttached(hasSurface)
       THEN download' = raster
       ELSE UNCHANGED download
    /\ isDrawing' = FALSE
    /\ UNCHANGED <<env, controller, brush, touching, ctx, raster, cleared,
                   pending>>

\* handleDownload: the link gets the result of getCanvasData()
HandleDownload ==
    /\ ToolbarReachable(appState)
    /\ IF RefAttached(hasSurface)
       THEN download' = raster
       ELSE UNCHANGED download
    /\ UNCHANGED <<env, controller, brush, touching, stroke, pending>>

ResizeForgets ==
    /\ Cardinality(pending) < MaxPendingLoads
    /\ hasContext
    /\ raster' = BlankRaster
    /\ strokeStyle' = Black
    /\ lineWidth' = FreshWidth
    /\ shadowBlur' = NoBlur
    /\ pen' = NoPoint
    /\ UNCHANGED pending
    /\ UNCHANGED <<env, controller, brush, touching, isDrawing, cleared,
                   download>>

\* resize: toDataURL(), then setting width and height erases the pixels and
\* resets the context and its path, then the snapshot starts to load
Resize ==
    /\ Cardinality(pending) < MaxPendingLoads
    /\ hasContext
    /\ raster' = BlankRaster
    /\ strokeStyle' = Black
    /\ lineWidth' = FreshWidth
    /\ shadowBlur' = NoBlur
    /\ pen' = NoPoint
    /\ pending' = pending \cup {raster}
    /\ UNCHANGED <<env, controller, brush, touching, isDrawing, cleared,
                   download>>

\* img.onload of the snapshot s: drawImage(img, 0, 0) paints its pixels over
\* the canvas, its transparent pixels leave the canvas as it is
ImageLoad(s) ==
    /\ s \in pending
    /\ pending' = pending \ {s}
    /\ raster' = [p \in Points |->
                     IF s[p] # Transparent THEN s[p] ELSE raster[p]]
    /\ UNCHANGED <<env, controller, brush, touching, isDrawing, ctx, cleared,
                   download>>

Mouse ==
    \/ \E p \in Points : MouseDown(p)
    \/ \E p \in Points : MouseMove(p)
    \/ MouseUp
    \/ MouseOut

Pointer ==
    \/ Mouse
    \/ \E p \in Points : TouchStart(p)
    \/ \E p \in Points : TouchMove(p)
    \/ TouchEnd

\* the drawing surface and the toolbar, no analysis requested
NextCanvas ==
    \/ Pointer
    \/ \E t \in Tools : SetTool(t)
    \/ \E c \in PickerColors : PickColor(c)
    \/ \E w \in Widths : SetWidth(w)

SpecCanvas == Init /\ [][NextCanvas]_vars

\* the surface under strokes, clear and viewport resizes, with the initial
\* brush
NextSurface ==
    \/ Pointer
    \/ HandleClear
    \/ Resize
    \/ \E s \in pending : ImageLoad(s)

SpecSurface == Init /\ [][NextSurface]_vars

\* the studio: drawing with the initial brush while up to MaxStudioRequests
\* requests run; the header button is not used
NextStudio ==
    \/ \E i \in 1..MaxStudioRequests, mode \in Modes : HandleAIAnalyze(i, mode)
    \/ Continue
    \/ Pointer

SpecStudio == Init /\ [][NextStudio]_vars

\* the brush: tool and palette selection and the start of mouse strokes
\* while up to MaxStudioRequests requests run; the header button is not used
NextBrush ==
    \/ \E i \in 1..MaxStudioRequests, mode \in Modes : HandleAIAnalyze(i, mode)
    \/ Continue
    \/ \E t \in Tools : SetTool(t)
    \/ \E k \in 1..PaletteSize : PaletteSelect(k)
    \/ \E p \in Points : MouseDown(p)
    \/ MouseUp

SpecBrush == Init /\ [][NextBrush]_vars

\* the two readers of the surface, the analysis pipeline and the download
\* button, while strokes are drawn with the mouse; the header button is not
\* used
NextExport ==
    \/ \E i \in 1..MaxStudioRequests, mode \in Modes : HandleAIAnalyze(i, mode)
    \/ Continue
    \/ Mouse
    \/ HandleDownload

SpecExport == Init /\ [][NextExport]_vars

\* the component mounted without the reference to its surface, or with a
\* canvas that gave no 2d context
InitBare ==
    /\ version \in Versions
    /\ hasAistudio \in BOOLEAN
    /\ hasApiKey \in BOOLEAN
    /\ hasSurface \in BOOLEAN
    /\ hasContext \in BOOLEAN
    /\ ~(hasSurface /\ hasContext)
    /\ Mounted

NextBare ==
    \/ \E i \in 1..MaxStudioRequests, mode \in Modes : HandleAIAnalyze(i, mode)
    \/ Continue
    \/ Pointer
    \/ HandleClear
    \/ HandleDownload

SpecBare == InitBare /\ [][NextBare]_vars

\* every pending collaborator call and dialog eventually settles
FairSpec ==
    /\ Spec
    /\ \A i \in ReqIds : WF_vars(Settle(i))
    /\ WF_vars(UserDialogResolve \/ UserDialogReject)
    /\ WF_vars((\E hasKey \in BOOLEAN : CheckKeyResolve(hasKey)) \/ CheckKeyReject)

TypeOK ==
    /\ version \in Versions
    /\ appState \in AppStates
    /\ isKeySetup \in BOOLEAN
    /\ checkKey \in {"pending", "done"}
    /\ userDialogs \in 0..MaxUserDialogs
    /\ tool \in Tools
    /\ isDrawing \in BOOLEAN
    /\ touching \in BOOLEAN
    /\ pen \in Points \cup {NoPoint}
    /\ brushWidth \in Widths
    /\ lineWidth \in Widths \cup {FreshWidth}
    /\ shadowBlur \in {NoBlur, NeonBlur}
    /\ cleared \in BOOLEAN
    /\ Cardinality(pending) <= MaxPendingLoads
    /\ \A s \in pending : DOMAIN s = Points
    /\ raster \in [Points -> {Transparent, Black, Background, White,
                               "#111111", "#222222", "#333333", "#444444"}]
    /\ \A i \in ReqIds :
          reqs[i].pc \in {"idle", "dialog", "analyze", "vision",
                          "catchDialog", "done", "rejected"}


\* ----------------------------------------------------------------- claims
\* invocation i issues its analysis call in this step
IssuesAnalysis(i) == reqs[i].pc # "analyze" /\ reqs'[i].pc = "analyze"
\* a collaborator call of invocation i settles in this step
CallSettles(i) == reqs[i].pc \in {"analyze", "vision"} /\ reqs'[i].pc # reqs[i].pc
\* invocation i ends in this step, through the try block / the catch block
Succeeds(i) == CallSettles(i) /\ reqs'[i].pc = "done" /\ reqs'[i].failedAt = "none"
Fails(i) ==
    /\ reqs[i].pc \in {"analyze", "vision", "catchDialog"}
    /\ reqs'[i].pc = "done"
    /\ reqs'[i].failedAt # "none"
\* a later invocation has entered Analyzing
Superseded(i) == \E j \in ReqIds : j > i /\ reqs[j].phaseSet # "none"

\* C1: the phase changes only along Drawing->Analyzing (requestAnalysis),
\* Analyzing->ViewingResult (success), Analyzing->Drawing (failure) and
\* ViewingResult->Drawing (dismiss), and requestAnalysis enters Analyzing
\* only from Drawing.
C1_OnlyFourTransitions ==
    [][/\ appState' # appState =>
             \/ /\ appState = "drawing" /\ appState' = "analyzing"
                /\ \E i \in ReqIds : IssuesAnalysis(i)
             \/ /\ appState = "analyzing" /\ appState' = "viewing-result"
                /\ \E i \in ReqIds : Succeeds(i)
             \/ /\ appState = "analyzing" /\ appState' = "drawing"
                /\ \E i \in ReqIds : Fails(i)
             \/ /\ appState = "viewing-result" /\ appState' = "drawing"
                /\ reqs' = reqs
       /\ \A i \in ReqIds : IssuesAnalysis(i) => appState = "drawing"]_vars

\* C2: after a pro request whose stylization call failed, the phase it left
\* is Drawing and the stored AIResponse is not the one its analysis call
\* returned.
C2_NothingRetainedAfterVisionFailure ==
    \A i \in ReqIds :
        (reqs[i].failedAt = "vision" /\ reqs[i].pc = "done") =>
            /\ reqs[i].phaseSet = "drawing"
            /\ aiData # reqs[i].analysis

\* C3: a pro request that set the phase to ViewingResult stored an image
\* that carries image data.
C3_ProResultHasImage ==
    \A i \in ReqIds :
        (reqs[i].mode = "pro" /\ reqs[i].phaseSet = "viewing-result") =>
            reqs[i].vision = ImageUrl(i)

\* C4: a response that arrives when the phase is not Analyzing, or that
\* belongs to a superseded request, changes neither the phase nor the stored
\* AIResponse nor the stored GeneratedImage.
C4_StaleResponseDiscarded ==
    [][\A i \in ReqIds :
          (CallSettles(i) /\ (appState # "analyzing" \/ Superseded(i))) =>
              /\ appState' = appState
              /\ aiData' = aiData
              /\ generatedImg' = generatedImg]_vars

\* C5: once every collaborator call and every authorization dialog has
\* resolved or rejected, the phase is not Analyzing.
C5_NotAnalyzingWhenSettled ==
    (\A i \in ReqIds : ~Pending(i)) => appState # "analyzing"

\* C6: a request whose analysis or stylization call failed ends in its catch
\* block with the phase set to Drawing, and never sets ViewingResult.
C6_FailureReturnsToDrawing ==
    \A i \in ReqIds :
        reqs[i].failedAt # "none" =>
            /\ reqs[i].phaseSet # "viewing-result"
            /\ ~Pending(i) => (reqs[i].pc = "done" /\ reqs[i].phaseSet = "drawing")

\* C7: the stylization call is made exactly by the pro requests whose
\* analysis stage succeeded; a basic request makes none.
C7_VisionOnlyForPro ==
    /\ \A i \in ReqIds :
          reqs[i].visionCalled <=>
              (reqs[i].mode = "pro" /\ reqs[i].analysis # Null)
    /\ Cardinality({i \in ReqIds : reqs[i].visionCalled}) =
          Cardinality({i \in ReqIds :
                          reqs[i].mode = "pro" /\ reqs[i].analysis # Null})

C7_Witness ==
    /\ \E i \in ReqIds :
          /\ reqs[i].mode = "basic" /\ reqs[i].pc = "done"
          /\ reqs[i].phaseSet = "viewing-result" /\ ~reqs[i].visionCalled
    /\ \E j \in ReqIds : reqs[j].mode = "pro" /\ reqs[j].visionCalled

\* C8: the step that completes a successful basic request leaves the phase
\* ViewingResult, no GeneratedImage, and as stored AIResponse exactly the
\* record its analysis call returned.
C8_BasicSuccessResult ==
    [][\A i \in ReqIds :
          (Succeeds(i) /\ reqs[i].mode = "basic") =>
              /\ appState' = "viewing-result"
              /\ generatedImg' = Null
              /\ reqs'[i].analysis \in AnalysisResults(i)
              /\ aiData' = reqs'[i].analysis]_vars

C8_Witness ==
    /\ appState = "viewing-result"
    /\ generatedImg = Null
    /\ \E j \in ReqIds : reqs[j].vision = ImageUrl(j)
    /\ \E i \in ReqIds :
          /\ reqs[i].mode = "basic" /\ reqs[i].pc = "done"
          /\ reqs[i].failedAt = "none"
          /\ aiData = reqs[i].analysis

\* C9: a request that made the stylization call had its analysis result by
\* then, and the prompt it passed is the backstory of that result.
C9_VisionAfterAnalysis ==
    \A i \in ReqIds :
        reqs[i].visionCalled =>
            /\ reqs[i].analysis \in AnalysisResults(i)
            /\ reqs[i].visionPrompt = Get(reqs[i].analysis, "backstory")

C9_Witness ==
    \E i \in ReqIds :
        /\ reqs[i].visionCalled
        /\ reqs[i].visionPrompt \in Backstories
        /\ \E j \in ReqIds : j < i /\ aiData = reqs[j].analysis /\ aiData # Null

\* C10: a pro request issues its analysis call while AuthorizationStatus is
\* false only after the authorization flow was invoked for it.
C10_AuthFlowBeforeAnalysis ==
    [][\A i \in ReqIds :
          (IssuesAnalysis(i) /\ reqs'[i].mode = "pro" /\ ~isKeySetup) =>
              reqs[i].pc = "dialog"]_vars


\* C11: whenever a pro request waits for the authorization dialog, what its
\* handler does once the dialog completes is the same in every handler.
C11_SinglePolicy ==
    \A i \in ReqIds :
        reqs[i].pc = "dialog" =>
            \A v \in Versions : AfterDialog(v) = AfterDialog(version)

\* the error a backend returns for a rejected credential
AuthRelated(msg) == msg = MsgEntityNotFound
\* invocation i enters its catch block in this step
EntersCatch(i) == reqs[i].failedAt = "none" /\ reqs'[i].failedAt # "none"

\* C12: an authorization-related failure resets AuthorizationStatus to false,
\* shows the authorization message and not the generic one, and the phase
\* becomes Drawing; a failure not identified as authorization-related leaves
\* AuthorizationStatus unchanged.
C12_AuthFailureHandling ==
    [][\A i \in ReqIds :
          /\ (EntersCatch(i) /\ AuthRelated(reqs'[i].error)) =>
                 /\ isKeySetup' = FALSE
                 /\ reqs'[i].alerts = reqs[i].alerts \o <<AlertInvalidKey>>
          /\ (EntersCatch(i) /\ ~IsAuthError(version, reqs'[i].error)) =>
                 isKeySetup' = isKeySetup
          /\ (AuthRelated(reqs'[i].error) /\ ~Pending(i)') =>
                 (reqs'[i].pc = "done" /\ reqs'[i].phaseSet = "drawing")]_vars

\* C13: when an authorization dialog opened by a pro request or by the error
\* handler completes, AuthorizationStatus is true afterwards.
C13_StatusRefreshedAfterDialog ==
    [][\A i \in ReqIds :
          (/\ reqs[i].pc \in {"dialog", "catchDialog"}
           /\ reqs'[i].pc \notin {reqs[i].pc, "rejected"}) =>
              isKeySetup' = TRUE]_vars

\* C14: a failed pipeline has emitted exactly one notification and a
\* pipeline that succeeded none.
C14_OneNotificationPerFailure ==
    \A i \in ReqIds :
        /\ reqs[i].failedAt # "none" => Len(reqs[i].alerts) = 1
        /\ (reqs[i].pc = "done" /\ reqs[i].phaseSet = "viewing-result") =>
               Len(reqs[i].alerts) = 0

\* invocation i issues its stylization call in this step
IssuesVision(i) == reqs[i].pc # "vision" /\ reqs'[i].pc = "vision"

\* C15: an invocation issues its analysis call at most once, when it starts
\* or when its dialog closes, and its stylization call at most once, when its
\* analysis call returns; once its catch block was entered it has no
\* collaborator call pending and issues none.
C15_NoAutomaticRetry ==
    [][\A i \in ReqIds :
          /\ IssuesAnalysis(i) =>
                 /\ ~reqs[i].analyzeCalled
                 /\ reqs[i].pc \in {"idle", "dialog"}
          /\ IssuesVision(i) =>
                 /\ ~reqs[i].visionCalled
                 /\ reqs[i].pc = "analyze"
          /\ reqs'[i].failedAt # "none" =>
                 reqs'[i].pc \in {"catchDialog", "done", "rejected"}]_vars

C15_Witness ==
    \E i, j \in ReqIds :
        /\ i < j
        /\ reqs[i].failedAt # "none" /\ reqs[i].pc = "done"
        /\ reqs[j].analyzeCalled /\ reqs[j].pc = "analyze"

RequiredFields == {"critique", "suggestion", "palette", "backstory"}
WellFormed(resp) ==
    /\ RequiredFields \subseteq DOMAIN resp
    /\ Len(resp.palette) = 4

\* C16: an analysis response that lacks a required field or whose palette
\* has not exactly 4 entries is a failure of its request, and every stored
\* AIResponse has the four fields and a palette of 4 colors.
C16_StoredResponseWellFormed ==
    /\ aiData # Null => WellFormed(aiData)
    /\ \A i \in ReqIds :
          (reqs[i].analysis # Null /\ ~WellFormed(reqs[i].analysis)) =>
              reqs[i].failedAt # "none"

\* the result panel is dismissed in this step
DismissStep ==
    /\ appState = "viewing-result"
    /\ appState' = "drawing"
    /\ reqs' = reqs

\* C17: dismissing a result moves the phase from ViewingResult to Drawing
\* and changes nothing else: not the raster, the stroke in progress, the
\* stored AIResponse and GeneratedImage, the brush color, the tool or
\* AuthorizationStatus.
C17_DismissChangesPhaseOnly ==
    [][DismissStep =>
          /\ UNCHANGED <<raster, isDrawing, touching, strokeStyle, pen>>
          /\ UNCHANGED <<aiData, generatedImg, brushColor, tool, isKeySetup>>
          /\ UNCHANGED <<env, checkKey, userDialogs>>]_vars

\* a result computed from a sketch with ink on it was dismissed
C17_Witness ==
    /\ appState = "drawing"
    /\ reqs[1].pc = "done" /\ reqs[1].phaseSet = "viewing-result"
    /\ \A i \in ReqIds : i > 1 => reqs[i].pc = "idle"
    /\ aiData = reqs[1].analysis
    /\ reqs[1].canvasData # BlankRaster
    /\ raster = reqs[1].canvasData

\* a stroke begins in this step
BeginsStroke == ~isDrawing /\ isDrawing'

\* C18: the brush color changes only to a palette entry of the stored
\* AIResponse, no step of the analysis pipeline changes it, and a stroke
\* that begins uses the brush color, whichever tool is selected.
C18_PaletteColorUsed ==
    [][/\ brushColor' # brushColor =>
              /\ PanelRenders(appState, aiData)
              /\ \E k \in DOMAIN aiData.palette : brushColor' = aiData.palette[k]
       /\ reqs' # reqs => brushColor' = brushColor
       /\ BeginsStroke => strokeStyle' = brushColor]_vars

\* C18 amended: the brush color changes only to a palette entry of the
\* stored AIResponse, no step of the analysis pipeline changes it, and a
\* stroke that begins uses the brush color when the tool is brush or neon
\* and the background color #050505 when the tool is the eraser.
C18_PaletteColorUsedUnlessEraser ==
    [][/\ brushColor' # brushColor =>
              /\ PanelRenders(appState, aiData)
              /\ \E k \in DOMAIN aiData.palette : brushColor' = aiData.palette[k]
       /\ reqs' # reqs => brushColor' = brushColor
       /\ (BeginsStroke /\ tool # "eraser") => strokeStyle' = brushColor
       /\ (BeginsStroke /\ tool = "eraser") => strokeStyle' = Background]_vars

\* a stroke in progress uses a color selected from the palette
C18_Witness ==
    /\ aiData # Null /\ "palette" \in DOMAIN aiData
    /\ brushColor = aiData.palette[2]
    /\ tool = "neon"
    /\ isDrawing
    /\ strokeStyle = brushColor

\* C19: while the phase is Analyzing no step changes the raster, and when an
\* invocation that read the raster ends, the raster equals what it read.
C19_NoStrokeWhileAnalyzing ==
    [][/\ appState = "analyzing" => raster' = raster
       /\ \A i \in ReqIds :
             (/\ reqs[i].analyzeCalled
              /\ Pending(i)
              /\ reqs'[i].pc = "done") => raster' = reqs[i].canvasData]_vars

\* C20: the raster changes only in a step taken while a stroke is in
\* progress; a move or an end event outside a stroke changes nothing of the
\* surface.
C20_ExtendOnlyWhileStroking ==
    [][/\ raster' # raster => isDrawing
       /\ (~isDrawing /\ ~isDrawing') =>
              UNCHANGED <<raster, strokeStyle, pen>>]_vars

\* a stroke has left ink and has ended
C20_Witness ==
    /\ raster # BlankRaster
    /\ ~isDrawing
    /\ ~touching
    /\ pen = NoPoint

\* invocation i awaits the key dialog or a collaborator call
InFlight(i) == reqs[i].pc \in {"dialog", "analyze", "vision"}

\* C28: at most one invocation awaits the authorization dialog, the analysis
\* call or the stylization call at any time.
C28_OnePipelineInFlight ==
    \A i, j \in ReqIds : (InFlight(i) /\ InFlight(j)) => i = j

\* the last of the invocations that have entered Analyzing
Analyzed == {i \in ReqIds : reqs[i].analyzeCalled}
LastStarted == CHOOSE i \in Analyzed : \A j \in Analyzed : j <= i

\* C29: whenever the phase is ViewingResult the stored AIResponse is present
\* and was returned to the last invocation that entered Analyzing, and a
\* stored image with content was returned to that same invocation.
C29_ResultOfOneRequest ==
    appState = "viewing-result" =>
        /\ aiData # Null
        /\ aiData.call = LastStarted
        /\ (generatedImg # Null /\ generatedImg.data) =>
               generatedImg.call = aiData.call

\* C30: AuthorizationStatus goes from true to false only in a step in which
\* a catch block has recognised an authorization failure.
C30_StatusStaysTrue ==
    [][(isKeySetup /\ ~isKeySetup') =>
          \E i \in ReqIds :
              EntersCatch(i) /\ IsAuthError(version, reqs'[i].error)]_vars

\* C26: the snapshot of an invocation is taken in the step in which it
\* enters Analyzing, it is the raster of that moment, it is never taken
\* again, and the stylization call receives it.
C26_SnapshotExportedOnce ==
    [][\A i \in ReqIds :
          /\ IssuesAnalysis(i) =>
                 /\ appState' = "analyzing"
                 /\ reqs'[i].canvasData = raster
          /\ reqs'[i].canvasData # reqs[i].canvasData => IssuesAnalysis(i)
          /\ IssuesVision(i) => reqs'[i].visionData = reqs[i].canvasData
          /\ reqs'[i].visionData # reqs[i].visionData => IssuesVision(i)]_vars

\* the stylization call was issued after the raster had changed
C26_Witness ==
    \E i \in ReqIds :
        /\ reqs[i].visionCalled
        /\ reqs[i].visionData = reqs[i].canvasData
        /\ reqs[i].visionData # raster

\* C21: after clear(), and as long as no segment is stroked, the raster is
\* the background-only raster, so an export returns it.
C21_ClearThenExportBlank == cleared => raster = BlankRaster

\* a resize starts the load of a snapshot in this step
ResizeStep == pending' # pending /\ pending \subseteq pending'
\* clear() runs in this step
ClearStep == cleared' /\ raster' = BlankRaster /\ UNCHANGED <<ctx, pending>>

\* C22: a resize leaves the pixels as they were: what an export returns
\* after the resize is what it returned before.
C22_ResizeKeepsContent == [][ResizeStep => raster' = raster]_vars

\* C23: an export returns the raster and changes nothing else: the download
\* changes no other variable, and the step in which an invocation takes its
\* snapshot changes neither the surface nor the stored result.
C23_ExportIsPureRead ==
    [][/\ download' # download =>
              /\ download' = raster
              /\ UNCHANGED <<env, controller, brush, touching, stroke, pending>>
       /\ \A i \in ReqIds :
             IssuesAnalysis(i) =>
                 /\ reqs'[i].canvasData = raster
                 /\ UNCHANGED <<brush, surface, aiData, generatedImg>>]_vars

\* the download and the analysis call got the same image of a sketch while a
\* stroke was in progress
C23_Witness ==
    /\ isDrawing
    /\ download = raster
    /\ download # BlankRaster
    /\ \E i \in ReqIds :
          reqs[i].analyzeCalled /\ reqs[i].canvasData = download

\* C24: a step of a stroke that moves the pen to a point strokes the segment
\* to it, unless it begins a stroke, and a point that has ink keeps ink until
\* clear() runs.
C24_SegmentsStayOnRaster ==
    [][/\ (isDrawing /\ isDrawing' /\ pen' # pen /\ pen' # NoPoint) =>
              \/ raster'[pen'] = strokeStyle
              \/ /\ strokeStyle' = ColorProp(tool, brushColor)
                 /\ lineWidth' = brushWidth
                 /\ raster' = raster
       /\ \A p \in Points :
             (raster[p] # Transparent /\ raster'[p] = Transparent) =>
                 ClearStep]_vars

\* C25: while a stroke is in progress the style of the context changes only
\* when a stroke begins, to the style of the brush, and a stroke begun with
\* the brush or the eraser has no glow.
C25_StyleFixedPerStroke ==
    [][/\ (/\ isDrawing /\ isDrawing'
           /\ <<strokeStyle, lineWidth, shadowBlur>>' #
                  <<strokeStyle, lineWidth, shadowBlur>>) =>
              /\ strokeStyle' = ColorProp(tool, brushColor)
              /\ lineWidth' = brushWidth
              /\ shadowBlur' = Glow(tool)
       /\ (BeginsStroke /\ tool # "neon") => shadowBlur' = NoBlur]_vars

\* C27: without the reference to the surface no invocation starts, nothing
\* is stored, downloaded or notified; without a context the pixels, the
\* context and the stroke flag stay as they were at the start.
C27_NoSurfaceNoEffect ==
    /\ ~hasSurface =>
          /\ appState = "drawing"
          /\ aiData = Null /\ generatedImg = Null
          /\ download = Null
          /\ \A i \in ReqIds : reqs[i] = IdleReq
    /\ ~hasContext =>
          /\ raster = BlankRaster /\ ~cleared
          /\ ~isDrawing /\ pen = NoPoint
          /\ strokeStyle = Black /\ lineWidth = FreshWidth
          /\ shadowBlur = NoBlur

\* a touch is on a canvas without context and the startup query is over
C27_Witness ==
    /\ ~hasSurface /\ ~hasContext
    /\ touching
    /\ checkKey = "done"

====
